---- MODULE Spec2Model ----
(***************************************************************************)
(* The ICMP tracer of src/src/icmp/tracer.rs: TracerState (ring buffer of  *)
(* probes, sequence and round cursors, target discovery) and the           *)
(* IcmpTracer::trace loop send_request -> recv_response -> update_round.   *)
(*                                                                         *)
(* Option<T> is modelled as a set: None is {} and Some(x) is {x}.          *)
(* u8 arithmetic is modelled as the release build computes it (wrapping    *)
(* modulo 256); the ghost variable overflowed records that an operation    *)
(* wrapped, and assert_failed that a debug_assert of publish_trace would   *)
(* have failed (a debug build panics at both points).                      *)
(***************************************************************************)
EXTENDS Integers, Sequences, FiniteSets, TLC

VARIABLES
    buffer,            \* TracerState.buffer: [Probe; 256]
    sequence,          \* TracerState.sequence
    round_sequence,    \* TracerState.round_sequence
    ttl,               \* TracerState.ttl
    round,             \* TracerState.round
    round_start,       \* TracerState.round_start
    target_found,      \* TracerState.target_found
    max_received_ttl,  \* TracerState.max_received_ttl
    target_ttl,        \* TracerState.target_ttl
    target_seq,        \* TracerState.target_seq
    received_time,     \* TracerState.received_time
    pc,                \* position of trace(): "send", "recv", "update", "failed"
    now,               \* the clock read by SystemTime::now()
    published,         \* probes handed to (self.publish) by the last publish_trace
    pub_count,         \* ghost: number of publish_trace calls made so far
    assert_failed,     \* ghost: a debug_assert of publish_trace did not hold
    overflowed,        \* ghost: a u8 operation wrapped
    found_calls,       \* ghost: <<sequence, ttl>> of update_probe(found=true) calls of this round
    update_ttls,       \* ghost: probe.ttl of the update_probe calls of this round
    last_recv,         \* ghost: the response this iteration's receive returned, if any
    recv_count,        \* ghost: responses the channel has delivered so far
    carried,           \* ghost: target_ttl as it was at the last advance_round
    config,            \* IcmpTracer: the configuration fields of self
    adv_calls          \* ghost: the states before the advance_round calls made in succession

state_vars == <<buffer, sequence, round_sequence, ttl, round, round_start, target_found,
                max_received_ttl, target_ttl, target_seq, received_time>>
ghost_vars == <<published, pub_count, assert_failed, overflowed, found_calls, update_ttls,
                last_recv, recv_count, carried>>
vars == <<state_vars, pc, now, ghost_vars, config, adv_calls>>

----------------------------------------------------------------------------
(* Program constants. *)
BUFFER_SIZE == 256
MIN_SEQUENCE == 33000
MAX_SEQUENCE == 65535

(* The configuration of the trace (IcmpTracerConfig). *)
DefaultConfig ==
    [trace_identifier |-> 7, first_ttl |-> 1, max_ttl |-> 3, max_inflight |-> 3,
     read_timeout |-> 1, min_round_duration |-> 1, grace_duration |-> 1,
     max_round_duration |-> 2]

(* A configuration with more hops and a longer round, so that a round can send  *)
(* more probes than max_inflight.                                               *)
WideConfig ==
    [DefaultConfig EXCEPT !.max_ttl = 6, !.max_round_duration = 3]

(* A configuration that allows every ttl an 8-bit counter holds. *)
DeepConfig ==
    [DefaultConfig EXCEPT !.max_ttl = 255]

trace_identifier == config.trace_identifier
first_ttl == config.first_ttl
max_ttl == config.max_ttl
max_inflight == config.max_inflight
read_timeout == config.read_timeout
min_round_duration == config.min_round_duration
grace_duration == config.grace_duration
max_round_duration == config.max_round_duration

(* Bounds of the exploration. *)
MaxTime == 7          \* the clock stops at MaxTime
MaxRounds == 2        \* rounds completed per run
RespWindow == 4       \* how far behind the cursor a response's sequence may lie
MaxResponses == 2     \* responses the channel delivers in a run
LateSlack == 2        \* how far before MAX_SEQUENCE the late initial state lies
MaxProbes == 3        \* next_probe calls of SpecCalls
MaxCalls == 3         \* update_probe calls of SpecCalls
MaxAdvances == 2      \* advance_round calls of SpecApi
DeepSlack == 1        \* how far below max_ttl the cursor of the deep initial state lies

----------------------------------------------------------------------------
(* Option<T> and u8. *)
None == {}
Some(x) == {x}
Unwrap(o) == CHOOSE x \in o : TRUE
UnwrapOr(o, d) == IF o = None THEN d ELSE Unwrap(o)
Min(a, b) == IF a <= b THEN a ELSE b
Max(a, b) == IF a >= b THEN a ELSE b
U8(x) == x % 256
SaturatingSub(a, b) == IF a >= b THEN a - b ELSE 0

----------------------------------------------------------------------------
(* Probe (crate::icmp::probe). *)
ProbeDefault ==
    [sequence |-> 0, ttl |-> 0, round |-> 0, sent |-> None, received |-> None,
     host |-> None, status |-> "NotSent", icmp_packet_type |-> None]

ProbeNew(seq, t, r, sent) ==
    [sequence |-> seq, ttl |-> t, round |-> r, sent |-> Some(sent), received |-> None,
     host |-> None, status |-> "Awaited", icmp_packet_type |-> None]

with_status(p, s) == [p EXCEPT !.status = s]
with_icmp_packet_type(p, t) == [p EXCEPT !.icmp_packet_type = Some(t)]
with_host(p, h) == [p EXCEPT !.host = Some(h)]
with_received(p, t) == [p EXCEPT !.received = Some(t)]

----------------------------------------------------------------------------
(* TracerState. *)
Slot(s) == s % BUFFER_SIZE

probe_at(s) == buffer[Slot(s)]

(* Mutant of probes_take: the ring is read from slot 0, without the skip. *)
probes_take_unrotated(n) ==
    [k \in 1..n |-> buffer[(k - 1) % BUFFER_SIZE]]

(* probes().take(n): n slots of the ring, cyclically, from round_sequence % 256. *)
probes_take(n) ==
    [k \in 1..n |-> buffer[(Slot(round_sequence) + (k - 1)) % BUFFER_SIZE]]

in_round(s) == s >= round_sequence

(* Mutant of NextSequence: the increment without the wrap at MAX_SEQUENCE. *)
NextSequence_no_wrap(s) == s + 1

NextSequence(s) == IF s = MAX_SEQUENCE THEN MIN_SEQUENCE ELSE s + 1

next_probe ==
    /\ buffer' = [buffer EXCEPT ![Slot(sequence)] = ProbeNew(sequence, ttl, round, now)]
    /\ ttl' = U8(ttl + 1)
    /\ sequence' = NextSequence(sequence)
    /\ UNCHANGED <<round_sequence, round, round_start, target_found, max_received_ttl,
                   target_ttl, target_seq, received_time>>

(* Mutant of sets_target: the first Echo Reply wins, whatever its sequence. *)
sets_target_first_wins(s, found) == target_ttl = None /\ found

(* Mutant of sets_target: an Echo Reply also sets the target when target_seq   *)
(* is None, as it is after advance_round.                                       *)
sets_target_after_advance(s, found) ==
    \/ target_ttl = None /\ found
    \/ target_ttl # None /\ found /\ (target_seq = None \/ s < Unwrap(target_seq))

(* The match of update_probe: does this call set (target_ttl, target_seq)? *)
sets_target(s, found) ==
    \/ target_ttl = None /\ found
    \/ target_ttl # None /\ target_seq # None /\ found /\ s < Unwrap(target_seq)

(* Mutant of update_probe: the probe is stored at the slot of its own sequence  *)
(* field instead of the slot of the sequence passed in.                         *)
update_probe_own_slot(s, probe, rtime, found) ==
    /\ target_ttl' = IF sets_target(s, found) THEN Some(probe.ttl) ELSE target_ttl
    /\ target_seq' = IF sets_target(s, found) THEN Some(s) ELSE target_seq
    /\ buffer' = [buffer EXCEPT ![Slot(probe.sequence)] = probe]
    /\ max_received_ttl' = IF max_received_ttl # None
                             THEN Some(Max(Unwrap(max_received_ttl), probe.ttl))
                             ELSE Some(probe.ttl)
    /\ received_time' = Some(rtime)
    /\ target_found' = (target_found \/ found)
    /\ UNCHANGED <<sequence, round_sequence, ttl, round, round_start>>

(* Mutant of update_probe: max_received_ttl is the ttl of the latest response. *)
update_probe_latest_ttl(s, probe, rtime, found) ==
    /\ target_ttl' = IF sets_target(s, found) THEN Some(probe.ttl) ELSE target_ttl
    /\ target_seq' = IF sets_target(s, found) THEN Some(s) ELSE target_seq
    /\ buffer' = [buffer EXCEPT ![Slot(s)] = probe]
    /\ max_received_ttl' = Some(probe.ttl)
    /\ received_time' = Some(rtime)
    /\ target_found' = (target_found \/ found)
    /\ UNCHANGED <<sequence, round_sequence, ttl, round, round_start>>

update_probe(s, probe, rtime, found) ==
    /\ target_ttl' = IF sets_target(s, found) THEN Some(probe.ttl) ELSE target_ttl
    /\ target_seq' = IF sets_target(s, found) THEN Some(s) ELSE target_seq
    /\ buffer' = [buffer EXCEPT ![Slot(s)] = probe]
    /\ max_received_ttl' = IF max_received_ttl # None
                             THEN Some(Max(Unwrap(max_received_ttl), probe.ttl))
                             ELSE Some(probe.ttl)
    /\ received_time' = Some(rtime)
    /\ target_found' = (target_found \/ found)
    /\ UNCHANGED <<sequence, round_sequence, ttl, round, round_start>>

(* Mutant of advance_round: target_seq is kept like target_ttl. *)
advance_round_keeps_target_seq(first) ==
    /\ target_found' = FALSE
    /\ round_sequence' = sequence
    /\ received_time' = None
    /\ round_start' = now
    /\ max_received_ttl' = None
    /\ round' = round + 1
    /\ ttl' = first
    /\ UNCHANGED <<buffer, sequence, target_ttl, target_seq>>

(* Mutant of advance_round: the round counter is not incremented. *)
advance_round_same_round(first) ==
    /\ target_found' = FALSE
    /\ round_sequence' = sequence
    /\ received_time' = None
    /\ round_start' = now
    /\ max_received_ttl' = None
    /\ ttl' = first
    /\ target_seq' = None
    /\ UNCHANGED <<buffer, sequence, target_ttl, round>>

(* Mutant of advance_round: target_ttl is cleared with the other round fields. *)
advance_round_clears_target(first) ==
    /\ target_found' = FALSE
    /\ round_sequence' = sequence
    /\ received_time' = None
    /\ round_start' = now
    /\ max_received_ttl' = None
    /\ round' = round + 1
    /\ ttl' = first
    /\ target_seq' = None
    /\ target_ttl' = None
    /\ UNCHANGED <<buffer, sequence>>

advance_round(first) ==
    /\ target_found' = FALSE
    /\ round_sequence' = sequence
    /\ received_time' = None
    /\ round_start' = now
    /\ max_received_ttl' = None
    /\ round' = round + 1
    /\ ttl' = first
    /\ target_seq' = None
    /\ UNCHANGED <<buffer, sequence, target_ttl>>

----------------------------------------------------------------------------
(* IcmpTracer::send_request. *)
can_send_ttl ==
    IF target_ttl # None
      THEN ttl <= Unwrap(target_ttl)
      ELSE U8(ttl + 256 - UnwrapOr(max_received_ttl, 0)) < max_inflight

should_send == ~target_found /\ ttl <= max_ttl /\ can_send_ttl

(* The u8 operations of the send phase that wrap. *)
send_wraps ==
    \/ target_ttl = None /\ ttl < UnwrapOr(max_received_ttl, 0)
    \/ should_send /\ ttl + 1 > 255

SendProbe ==
    /\ pc = "send"
    /\ should_send
    /\ next_probe
    /\ pc' = "recv"
    /\ overflowed' = (overflowed \/ send_wraps)
    /\ UNCHANGED <<now, published, pub_count, assert_failed, found_calls, update_ttls,
                   last_recv, recv_count, carried, config, adv_calls>>

(* channel.send(st.next_probe(), ...)? : the probe is created, then the send fails. *)
SendFails ==
    /\ pc = "send"
    /\ should_send
    /\ next_probe
    /\ pc' = "failed"
    /\ overflowed' = (overflowed \/ send_wraps)
    /\ UNCHANGED <<now, published, pub_count, assert_failed, found_calls, update_ttls,
                   last_recv, recv_count, carried, config, adv_calls>>

SendSkip ==
    /\ pc = "send"
    /\ ~should_send
    /\ pc' = "recv"
    /\ overflowed' = (overflowed \/ send_wraps)
    /\ UNCHANGED <<state_vars, now, published, pub_count, assert_failed, found_calls,
                   update_ttls, last_recv, recv_count, carried, config, adv_calls>>

send_request == SendProbe \/ SendFails \/ SendSkip

----------------------------------------------------------------------------
(* IcmpTracer::recv_response. *)
Variants == {"TimeExceeded", "DestinationUnreachable", "EchoReply"}

PacketType(v) == IF v = "DestinationUnreachable" THEN "Unreachable" ELSE v

IsFound(v) == v = "EchoReply"

(* The identifiers and responder addresses the channel may deliver. *)
Identifiers == {trace_identifier, trace_identifier + 1}
Responder(v) == IF v = "EchoReply" THEN "target" ELSE "router"

PrevSequence(s) == IF s = MIN_SEQUENCE THEN MAX_SEQUENCE ELSE s - 1

RECURSIVE Back(_, _)
Back(s, k) == IF k = 0 THEN s ELSE Back(PrevSequence(s), k - 1)

(* The sequences a response may carry: those of the probes sent last (of the     *)
(* current round or of earlier ones, so late and duplicate responses), and the   *)
(* sequence the cursor stands at, which no probe of this round carries yet.      *)
RespSeqs ==
    {sequence} \cup
    {s \in {Back(sequence, k) : k \in 1..RespWindow} :
        probe_at(s).sequence = s /\ probe_at(s).status # "NotSent"}

accepts(id, s) == trace_identifier = id /\ in_round(s)

response_probe(v, s, recv) ==
    with_received(
        with_host(
            with_icmp_packet_type(with_status(probe_at(s), "Complete"), PacketType(v)),
            Responder(v)),
        recv)

(* One arm of the match of recv_response: the channel returned, after d, a       *)
(* response of variant v carrying identifier id and sequence s.                  *)
recv_packet(v, id, s, d) ==
    /\ now' = now + d
    /\ IF accepts(id, s)
         THEN /\ update_probe(s, response_probe(v, s, now'), now', IsFound(v))
              /\ found_calls' = IF IsFound(v)
                                  THEN found_calls \cup {<<s, probe_at(s).ttl>>}
                                  ELSE found_calls
              /\ update_ttls' = update_ttls \cup {probe_at(s).ttl}
         ELSE UNCHANGED <<state_vars, found_calls, update_ttls>>
    /\ last_recv' = Some([variant |-> v, identifier |-> id, sequence |-> s])
    /\ recv_count' = recv_count + 1
    /\ pc' = "update"
    /\ UNCHANGED <<published, pub_count, assert_failed, overflowed, carried, config, adv_calls>>

RecvPacket ==
    /\ pc = "recv"
    /\ recv_count < MaxResponses
    /\ \E v \in Variants, id \in Identifiers, s \in RespSeqs, d \in 0..read_timeout :
          /\ now + d <= MaxTime
          /\ recv_packet(v, id, s, d)

(* channel.receive returns None after read_timeout. *)
RecvTimeout ==
    /\ pc = "recv"
    /\ now + read_timeout <= MaxTime
    /\ now' = now + read_timeout
    /\ last_recv' = None
    /\ pc' = "update"
    /\ UNCHANGED <<state_vars, published, pub_count, assert_failed, overflowed, found_calls,
                   update_ttls, recv_count, carried, config, adv_calls>>

RecvFails ==
    /\ pc = "recv"
    /\ pc' = "failed"
    /\ UNCHANGED <<state_vars, now, ghost_vars, config, adv_calls>>

recv_response == RecvPacket \/ RecvTimeout \/ RecvFails

----------------------------------------------------------------------------
(* IcmpTracer::update_round and publish_trace. *)
duration_since(end, start) == Max(end - start, 0)

exceeds(start, end, dur) == start # None /\ duration_since(end, Unwrap(start)) > dur

(* Mutant of round_complete: the grouping of the comment above update_round,    *)
(* where the grace period also guards the max_round_duration arm.               *)
round_complete_grouped ==
    LET round_duration == duration_since(now, round_start) IN
    /\ round_duration > min_round_duration
    /\ exceeds(received_time, now, grace_duration)
    /\ (target_found \/ round_duration > max_round_duration)

(* Mutant of round_complete: no max_round_duration arm. *)
round_complete_no_max ==
    LET round_duration == duration_since(now, round_start) IN
    /\ round_duration > min_round_duration
    /\ exceeds(received_time, now, grace_duration)
    /\ target_found

round_complete ==
    LET round_duration == duration_since(now, round_start) IN
    \/ /\ round_duration > min_round_duration
       /\ exceeds(received_time, now, grace_duration)
       /\ target_found
    \/ round_duration > max_round_duration

round_size ==
    IF target_ttl # None
      THEN U8(U8(Unwrap(target_ttl) + 256 - first_ttl) + 1)
      ELSE IF max_received_ttl = None
             THEN 0
             ELSE LET size == U8(SaturatingSub(Unwrap(max_received_ttl), first_ttl) + 1)
                      max_allowed == U8(max_ttl + 256 - first_ttl)
                  IN  U8(Min(size, max_allowed) + 1)

(* The u8 operations of round_size that wrap. *)
size_wraps ==
    IF target_ttl # None
      THEN Unwrap(target_ttl) < first_ttl \/ Unwrap(target_ttl) - first_ttl + 1 > 255
      ELSE max_received_ttl # None /\ max_ttl < first_ttl

publish_trace ==
    /\ published' = probes_take(round_size)
    /\ pub_count' = pub_count + 1
    /\ assert_failed' = (assert_failed \/
           \E k \in 1..round_size : probes_take(round_size)[k].round # round
                                      \/ probes_take(round_size)[k].ttl = 0)
    /\ overflowed' = (overflowed \/ size_wraps)

RoundComplete ==
    /\ pc = "update"
    /\ round_complete
    /\ pub_count < MaxRounds
    /\ publish_trace
    /\ advance_round(first_ttl)
    /\ found_calls' = {}
    /\ update_ttls' = {}
    /\ carried' = target_ttl
    /\ last_recv' = None
    /\ pc' = "send"
    /\ UNCHANGED <<now, recv_count, config, adv_calls>>

RoundContinues ==
    /\ pc = "update"
    /\ ~round_complete
    /\ last_recv' = None
    /\ pc' = "send"
    /\ UNCHANGED <<state_vars, now, published, pub_count, assert_failed, overflowed,
                   found_calls, update_ttls, recv_count, carried, config, adv_calls>>

update_round == RoundComplete \/ RoundContinues

----------------------------------------------------------------------------
(* IcmpTracer::trace: TracerState::new(first_ttl), then the loop. *)
new(first) ==
    /\ buffer = [i \in 0..(BUFFER_SIZE - 1) |-> ProbeDefault]
    /\ sequence = MIN_SEQUENCE
    /\ round_sequence = MIN_SEQUENCE
    /\ ttl = first
    /\ round = 0
    /\ round_start = now
    /\ target_found = FALSE
    /\ max_received_ttl = None
    /\ target_ttl = None
    /\ target_seq = None
    /\ received_time = None

(* A state late in a trace, shortly before the sequence counter wraps: the one   *)
(* reached from new(first_ttl) when round 0 had a TimeExceeded for each of its   *)
(* probes (FullSize probes, ttl first_ttl..max_ttl) and no response has arrived  *)
(* since.  A silent round sends SilentSize probes (ttl first_ttl, first_ttl + 1, *)
(* ... while ttl - 0 < max_inflight and ttl <= max_ttl, one per iteration) and   *)
(* is ended by max_round_duration after SilentIterations receive timeouts.       *)
SilentIterations == (max_round_duration \div read_timeout) + 1
SilentSize == Min(Min(max_inflight - 1, max_ttl) - first_ttl + 1, SilentIterations)
FullSize == max_ttl - first_ttl + 1
LateRound == 1 + (MAX_SEQUENCE - MIN_SEQUENCE - FullSize - LateSlack) \div SilentSize
LateSequence == MIN_SEQUENCE + FullSize + (LateRound - 1) * SilentSize

LateProbe(q) ==
    LET r == 1 + (q - MIN_SEQUENCE - FullSize) \div SilentSize
        k == (q - MIN_SEQUENCE - FullSize) % SilentSize
    IN  ProbeNew(q, first_ttl + k, r,
                 k * read_timeout - (LateRound - r) * SilentIterations * read_timeout)

late ==
    /\ buffer = [i \in 0..(BUFFER_SIZE - 1) |->
                   LateProbe(CHOOSE q \in (LateSequence - BUFFER_SIZE)..(LateSequence - 1) :
                               Slot(q) = i)]
    /\ sequence = LateSequence
    /\ round_sequence = LateSequence
    /\ ttl = first_ttl
    /\ round = LateRound
    /\ round_start = now
    /\ target_found = FALSE
    /\ max_received_ttl = None
    /\ target_ttl = None
    /\ target_seq = None
    /\ received_time = None

Init ==
    /\ adv_calls = <<>>
    /\ config = DefaultConfig
    /\ now = 0
    /\ pc = "send"
    /\ published = <<>>
    /\ pub_count = 0
    /\ assert_failed = FALSE
    /\ overflowed = FALSE
    /\ found_calls = {}
    /\ update_ttls = {}
    /\ last_recv = None
    /\ recv_count = 0
    /\ carried = None
    /\ (new(first_ttl) \/ late)

(* Mutant of Next: an error of the channel does not end the loop, the next     *)
(* iteration starts instead.                                                    *)
Next_retries ==
    \/ send_request \/ recv_response \/ update_round
    \/ /\ pc = "failed"
       /\ pc' = "send"
       /\ UNCHANGED <<state_vars, now, ghost_vars, config, adv_calls>>

Next == send_request \/ recv_response \/ update_round

Spec == Init /\ [][Next]_vars

----------------------------------------------------------------------------
(* The start of a trace: TracerState::new(first_ttl), nothing published yet.    *)
InitCalls ==
    /\ adv_calls = <<>>
    /\ config = DefaultConfig
    /\ now = 0
    /\ pc = "send"
    /\ published = <<>>
    /\ pub_count = 0
    /\ assert_failed = FALSE
    /\ overflowed = FALSE
    /\ found_calls = {}
    /\ update_ttls = {}
    /\ last_recv = None
    /\ recv_count = 0
    /\ carried = None
    /\ new(first_ttl)

(* TracerState driven directly: next_probe and update_probe calls on a new      *)
(* state, in any order, with no advance_round.                                   *)
CallNextProbe ==
    /\ sequence < MIN_SEQUENCE + MaxProbes
    /\ next_probe
    /\ adv_calls' = <<>>
    /\ UNCHANGED <<pc, now, ghost_vars, config>>

CallUpdateProbe ==
    /\ recv_count < MaxCalls
    /\ \E s \in MIN_SEQUENCE..(sequence - 1), v \in Variants, found \in BOOLEAN :
          /\ now' = now + 1
          /\ update_probe(s, response_probe(v, s, now'), now', found)
          /\ found_calls' = IF found THEN found_calls \cup {<<s, probe_at(s).ttl>>}
                                     ELSE found_calls
          /\ update_ttls' = update_ttls \cup {probe_at(s).ttl}
    /\ recv_count' = recv_count + 1
    /\ adv_calls' = <<>>
    /\ UNCHANGED <<pc, published, pub_count, assert_failed, overflowed, last_recv, carried,
                   config>>

NextCalls == CallNextProbe \/ CallUpdateProbe

SpecCalls == InitCalls /\ [][NextCalls]_vars

(* TracerState driven directly, advance_round included. *)
CallAdvanceRound ==
    /\ round < MaxAdvances
    /\ advance_round(first_ttl)
    /\ adv_calls' = Append(adv_calls,
                           [round |-> round, sequence |-> sequence, buffer |-> buffer,
                            target_ttl |-> target_ttl, target_found |-> target_found])
    /\ found_calls' = {}
    /\ update_ttls' = {}
    /\ carried' = target_ttl
    /\ UNCHANGED <<pc, now, published, pub_count, assert_failed, overflowed, last_recv,
                   recv_count, config>>

NextApi == CallNextProbe \/ CallUpdateProbe \/ CallAdvanceRound

SpecApi == InitCalls /\ [][NextApi]_vars

(* The loop of trace() keeps running (each phase is followed by the next), and  *)
(* channel.receive returns, with a response or with None, within read_timeout.  *)
FairSpec ==
    /\ InitCalls
    /\ [][Next]_vars
    /\ WF_vars(send_request)
    /\ WF_vars(RecvPacket \/ RecvTimeout)
    /\ WF_vars(update_round)

(* A new trace under WideConfig. *)
InitWide ==
    /\ adv_calls = <<>>
    /\ config = WideConfig
    /\ now = 0
    /\ pc = "send"
    /\ published = <<>>
    /\ pub_count = 0
    /\ assert_failed = FALSE
    /\ overflowed = FALSE
    /\ found_calls = {}
    /\ update_ttls = {}
    /\ last_recv = None
    /\ recv_count = 0
    /\ carried = None
    /\ new(first_ttl)

SpecWide == InitWide /\ [][Next]_vars

(* A state deep in the first round of a new trace under DeepConfig: the one     *)
(* reached when every probe sent so far (ttl first_ttl .. DeepTtl - 1, one per  *)
(* iteration) had its TimeExceeded received at once, as on a routing loop.      *)
DeepTtl == max_ttl - DeepSlack

DeepProbe(q) ==
    with_received(
        with_host(
            with_icmp_packet_type(
                with_status(ProbeNew(q, first_ttl + (q - MIN_SEQUENCE), 0, 0), "Complete"),
                PacketType("TimeExceeded")),
            Responder("TimeExceeded")),
        0)

deep ==
    /\ buffer = [i \in 0..(BUFFER_SIZE - 1) |->
                   IF \E q \in MIN_SEQUENCE..(MIN_SEQUENCE + DeepTtl - first_ttl - 1) :
                          Slot(q) = i
                     THEN DeepProbe(CHOOSE q \in MIN_SEQUENCE..
                                                  (MIN_SEQUENCE + DeepTtl - first_ttl - 1) :
                                       Slot(q) = i)
                     ELSE ProbeDefault]
    /\ sequence = MIN_SEQUENCE + DeepTtl - first_ttl
    /\ round_sequence = MIN_SEQUENCE
    /\ ttl = DeepTtl
    /\ round = 0
    /\ round_start = now
    /\ target_found = FALSE
    /\ max_received_ttl = Some(DeepTtl - 1)
    /\ target_ttl = None
    /\ target_seq = None
    /\ received_time = Some(now)

InitDeep ==
    /\ adv_calls = <<>>
    /\ config = DeepConfig
    /\ now = 0
    /\ pc = "send"
    /\ published = <<>>
    /\ pub_count = 0
    /\ assert_failed = FALSE
    /\ overflowed = FALSE
    /\ found_calls = {}
    /\ update_ttls = first_ttl..(DeepTtl - 1)
    /\ last_recv = None
    /\ recv_count = 0
    /\ carried = None
    /\ deep

SpecDeep == InitDeep /\ [][Next]_vars

----------------------------------------------------------------------------
(* C1: after any sequence of update_probe calls of which at least one had       *)
(* found = true, target_ttl is the ttl of the probe with the smallest sequence   *)
(* among the calls that had found = true.  Checked under SpecCalls.              *)
C1_TargetTtlOfSmallestFound ==
    /\ found_calls # {} => target_ttl # None
    /\ \A c \in found_calls :
          (\A c2 \in found_calls : c[1] <= c2[1]) => target_ttl = Some(c[2])

(* C1 witness: two probes got an Echo Reply, the one with the lower sequence     *)
(* later than the one with the higher sequence, and the lower one is the target. *)
C1_Witness ==
    \E lo \in found_calls, hi \in found_calls :
        /\ lo[1] < hi[1]
        /\ lo[2] # hi[2]
        /\ probe_at(lo[1]).received # None
        /\ probe_at(hi[1]).received # None
        /\ Unwrap(probe_at(lo[1]).received) > Unwrap(probe_at(hi[1]).received)
        /\ target_seq = Some(lo[1])
        /\ target_ttl = Some(lo[2])

----------------------------------------------------------------------------
(* The sequences of the probes sent in the current round: [round_sequence,      *)
(* sequence) in the order next_probe assigns them, 65535 being followed by      *)
(* 33000.                                                                        *)
InCurrentRound(s) ==
    IF round_sequence <= sequence
      THEN round_sequence <= s /\ s < sequence
      ELSE \/ round_sequence <= s /\ s <= MAX_SEQUENCE
           \/ MIN_SEQUENCE <= s /\ s < sequence

(* The step of update_round that publishes and advances. *)
Publishes == pc = "update" /\ pub_count' = pub_count + 1

(* C2: whenever a round is published in which an Echo Reply was accepted, the   *)
(* target_ttl that sizes the published round is the minimum ttl among the       *)
(* probes of that round that received an Echo Reply, in every round.            *)
C2_PublishedTargetIsMinEchoTtl ==
    [][Publishes =>
          LET E == {c \in found_calls : InCurrentRound(c[1])} IN
          \A c \in E : (\A c2 \in E : c[2] <= c2[2]) => target_ttl = Some(c[2])]_vars

(* C3: in_round(s) is true iff round_sequence <= s < sequence in the wrap-aware *)
(* ordering, for the sequences at and shortly behind the cursor.                *)
C3_InRoundIffInCurrentRound ==
    \A s \in {Back(sequence, k) : k \in 0..RespWindow} : in_round(s) <=> InCurrentRound(s)

(* C4: a response of any variant whose identifier differs from                  *)
(* trace_identifier, or whose sequence is not in the current round, is          *)
(* discarded: recv_response leaves the ring buffer and every TracerState field  *)
(* unchanged.                                                                   *)
C4_DiscardedResponseChangesNothing ==
    [][(/\ pc = "recv"
        /\ last_recv' # None
        /\ \/ Unwrap(last_recv').identifier # trace_identifier
           \/ ~InCurrentRound(Unwrap(last_recv').sequence))
       => UNCHANGED state_vars]_vars

(* C5: a response to a probe that was sent in an earlier round is never applied *)
(* to the state of the current round, also after the sequence counter wrapped.  *)
C5_LateResponseNeverApplied ==
    [][(/\ pc = "recv"
        /\ last_recv' # None
        /\ LET s == Unwrap(last_recv').sequence IN
             /\ probe_at(s).sequence = s
             /\ probe_at(s).status # "NotSent"
             /\ probe_at(s).round < round)
       => UNCHANGED state_vars]_vars

(* C6: every published round consists of exactly round_size probes, in          *)
(* ascending sequence order, which is also ascending ttl order, and the first   *)
(* published probe has ttl = first_ttl.                                         *)
C6_PublishedRoundIsOrdered ==
    [][Publishes =>
          /\ Len(published') = round_size
          /\ \A i \in 1..(Len(published') - 1) :
                /\ published'[i].sequence < published'[i + 1].sequence
                /\ published'[i].ttl < published'[i + 1].ttl
          /\ Len(published') >= 1 => published'[1].ttl = first_ttl]_vars

(* C7: every probe passed to the publisher satisfies probe.round = state.round  *)
(* and probe.ttl # 0 (the debug assertions of publish_trace never fail).        *)
C7_PublishedProbesAreOfTheRound ==
    [][Publishes =>
          \A i \in 1..Len(published') :
              published'[i].round = round /\ published'[i].ttl # 0]_vars

(* The completion condition as the specification states it. *)
StatedComplete ==
    LET elapsed == now - round_start IN
    \/ /\ elapsed > min_round_duration
       /\ \A t \in received_time : now - t > grace_duration
       /\ target_found
    \/ elapsed > max_round_duration

StatedSend ==
    /\ ~target_found
    /\ ttl <= max_ttl
    /\ IF target_ttl # None
         THEN ttl <= Unwrap(target_ttl)
         ELSE ttl - UnwrapOr(max_received_ttl, 0) < max_inflight

(* C10: in the send phase a probe is sent exactly when the stated condition     *)
(* holds; otherwise no probe is created and the state is unchanged.             *)
C10_ProbeSentExactlyWhen ==
    [][(pc = "send" /\ pc' # "send") =>
          IF StatedSend
            THEN /\ sequence' = NextSequence(sequence)
                 /\ buffer' = [buffer EXCEPT
                                  ![Slot(sequence)] = ProbeNew(sequence, ttl, round, now)]
            ELSE UNCHANGED state_vars]_vars

(* The ring slots of the probes of the current round that are still Awaited. *)
InFlight ==
    {i \in 0..(BUFFER_SIZE - 1) : buffer[i].status = "Awaited" /\ buffer[i].round = round}

(* C11: while target_ttl is unknown, the number of Awaited probes of the        *)
(* current round never exceeds max_inflight.  Checked under SpecWide.           *)
C11_InFlightWithinMaxInflight ==
    target_ttl = None => Cardinality(InFlight) <= max_inflight

(* C12: next_probe creates a probe with status Awaited, sent set, received and  *)
(* host unset, carrying the sequence, ttl and round the state held before the   *)
(* call, and stores it at slot sequence mod 256; afterwards state.ttl is one    *)
(* greater and state.sequence is one greater, 65535 being followed by 33000.    *)
(* Checked under SpecDeep.                                                      *)
C12_NextProbeAssignsAndAdvances ==
    [][sequence' # sequence =>
          LET probe == buffer'[sequence % 256] IN
          /\ probe.status = "Awaited"
          /\ probe.sent # None
          /\ probe.received = None
          /\ probe.host = None
          /\ probe.sequence = sequence
          /\ probe.ttl = ttl
          /\ probe.round = round
          /\ ttl' = ttl + 1
          /\ sequence' = IF sequence = 65535 THEN 33000 ELSE sequence + 1
          /\ sequence' \in 33000..65535]_vars

(* C13: max_received_ttl is None if no update_probe call happened since the    *)
(* last advance_round (or since creation), and otherwise the maximum probe.ttl  *)
(* over the update_probe calls since then.                                      *)
C13_MaxReceivedTtlIsMaxOfUpdates ==
    max_received_ttl =
        IF update_ttls = {}
          THEN None
          ELSE Some(CHOOSE m \in update_ttls : \A x \in update_ttls : x <= m)

(* C13 witness: in a round after the first, the latest of two update_probe      *)
(* calls carried the lower ttl.                                                 *)
C13_Witness ==
    /\ pc = "update"
    /\ pub_count >= 1
    /\ Cardinality(update_ttls) >= 2
    /\ last_recv # None
    /\ accepts(Unwrap(last_recv).identifier, Unwrap(last_recv).sequence)
    /\ probe_at(Unwrap(last_recv).sequence).ttl < Unwrap(max_received_ttl)

(* C14: two advance_round calls in succession, with no next_probe between      *)
(* them, leave round_sequence = sequence, target_found false,                   *)
(* max_received_ttl, received_time and target_seq None and ttl = first_ttl;     *)
(* round has increased by exactly 2; target_ttl, sequence and the ring buffer   *)
(* are as before the two calls.  Checked under SpecApi.                         *)
C14_AdvanceRoundTwice ==
    Len(adv_calls) >= 2 =>
        LET before == adv_calls[Len(adv_calls) - 1] IN
        /\ round_sequence = sequence
        /\ ~target_found
        /\ max_received_ttl = None
        /\ received_time = None
        /\ target_seq = None
        /\ ttl = first_ttl
        /\ round = before.round + 2
        /\ target_ttl = before.target_ttl
        /\ sequence = before.sequence
        /\ buffer = before.buffer

(* C14 witness: advance_round was called twice in succession on a state in      *)
(* which the target had been found and probes had been sent.                    *)
C14_Witness ==
    /\ Len(adv_calls) = 2
    /\ adv_calls[1].target_found
    /\ adv_calls[1].target_ttl # None
    /\ adv_calls[1].sequence > MIN_SEQUENCE
    /\ target_ttl = adv_calls[1].target_ttl

(* C15: once target_ttl has been set in some round and advance_round has then  *)
(* been called, no later next_probe, update_probe or advance_round call         *)
(* changes it.  Checked under SpecApi.                                          *)
C15_TargetTtlKeptAfterAdvance ==
    [][carried # None => target_ttl' = carried]_vars

(* C15 witness: after the advance_round an Echo Reply was applied for a probe   *)
(* with another ttl, and target_ttl is still the one of the round before.       *)
C15_Witness ==
    /\ carried # None
    /\ target_found
    /\ target_ttl = carried
    /\ \E c \in found_calls : c[2] # Unwrap(target_ttl)

(* C16: every probe in the ring buffer with status Complete has sent, received *)
(* and host set and an icmp_packet_type.                                        *)
C16_CompleteProbesAreFilled ==
    \A i \in 0..(BUFFER_SIZE - 1) :
        buffer[i].status = "Complete" =>
            /\ buffer[i].sent # None
            /\ buffer[i].received # None
            /\ buffer[i].host # None
            /\ buffer[i].icmp_packet_type # None

(* C17: for every ring index i the probe at buffer[i] is either the default     *)
(* probe (status NotSent, sequence 0, ttl 0, sent None) or has                  *)
(* sequence mod 256 = i.                                                        *)
C17_SlotHoldsDefaultOrOwnSequence ==
    \A i \in 0..255 :
        \/ /\ buffer[i].status = "NotSent"
           /\ buffer[i].sequence = 0
           /\ buffer[i].ttl = 0
           /\ buffer[i].sent = None
        \/ buffer[i].sequence % 256 = i

(* The step of recv_response that calls update_probe. *)
Updates ==
    /\ pc = "recv"
    /\ last_recv' # None
    /\ accepts(Unwrap(last_recv').identifier, Unwrap(last_recv').sequence)

(* C18: a store by next_probe or update_probe for sequence s puts the probe at  *)
(* slot s mod 256 and leaves the other 255 slots unchanged, no other step       *)
(* changes the buffer (so probe_at(s) returns the stored probe until the next   *)
(* store into that slot), and update_probe leaves sequence, round_sequence, ttl *)
(* and round unchanged.                                                         *)
C18_StoreChangesOneSlot ==
    [][IF sequence' # sequence
         THEN /\ buffer'[sequence % 256] = ProbeNew(sequence, ttl, round, now)
              /\ \A i \in 0..255 : i # sequence % 256 => buffer'[i] = buffer[i]
         ELSE IF Updates
           THEN LET r == Unwrap(last_recv') IN
                /\ buffer'[r.sequence % 256] = response_probe(r.variant, r.sequence, now')
                /\ \A i \in 0..255 : i # r.sequence % 256 => buffer'[i] = buffer[i]
                /\ UNCHANGED <<sequence, round_sequence, ttl, round>>
           ELSE buffer' = buffer]_vars

(* C18 witness: in a round after the first a response was stored for a probe    *)
(* and probe_at returns it, with the probe sent before it still in its slot.    *)
C18_Witness ==
    /\ pc = "update"
    /\ pub_count >= 1
    /\ last_recv # None
    /\ accepts(Unwrap(last_recv).identifier, Unwrap(last_recv).sequence)
    /\ probe_at(Unwrap(last_recv).sequence).status = "Complete"
    /\ probe_at(Unwrap(last_recv).sequence).sequence = Unwrap(last_recv).sequence
    /\ probe_at(Unwrap(last_recv).sequence).received = Some(now)
    /\ probe_at(PrevSequence(Unwrap(last_recv).sequence)).status = "Awaited"

(* C19: every probe created by next_probe carries the round number current at *)
(* the moment it is sent, and the round counter only changes by increasing by   *)
(* exactly 1 when a round is completed; so no probe labelled with round N is     *)
(* sent after the advance_round that completed round N.                         *)
C19_AdvanceRoundIsBarrier ==
    [][/\ round' = round \/ round' = round + 1
       /\ round' = round + 1 <=> pub_count' = pub_count + 1
       /\ sequence' # sequence =>
             /\ buffer'[Slot(sequence)].round = round
             /\ round' = round]_vars

(* C19 witness: a round was completed and a probe of the next round has been    *)
(* sent, labelled with the new round, next to a probe labelled with the old.    *)
C19_Witness ==
    /\ pc = "recv"
    /\ pub_count >= 1
    /\ sequence # round_sequence
    /\ probe_at(round_sequence).status = "Awaited"
    /\ probe_at(round_sequence).round = round
    /\ probe_at(PrevSequence(round_sequence)).status # "NotSent"
    /\ probe_at(PrevSequence(round_sequence)).round = round - 1

(* The number of probes sent in the current round, and the sequence of the      *)
(* one sent k-th (k from 0), 65535 being followed by 33000.                     *)
SentInRound ==
    IF round_sequence <= sequence
      THEN sequence - round_sequence
      ELSE (MAX_SEQUENCE - round_sequence + 1) + (sequence - MIN_SEQUENCE)

SentSequence(k) ==
    IF round_sequence + k <= MAX_SEQUENCE
      THEN round_sequence + k
      ELSE MIN_SEQUENCE + (round_sequence + k - MAX_SEQUENCE - 1)

StatedRoundSize ==
    IF target_ttl # None
      THEN Unwrap(target_ttl) - first_ttl + 1
      ELSE IF max_received_ttl # None
             THEN Min(Unwrap(max_received_ttl) - first_ttl + 1, max_ttl - first_ttl) + 1
             ELSE 0

(* C21: the number of probes published for a completed round is                *)
(* t - first_ttl + 1 when target_ttl = Some(t); otherwise                       *)
(* min(m - first_ttl + 1, max_ttl - first_ttl) + 1 when max_received_ttl =      *)
(* Some(m); otherwise 0.                                                        *)
C21_PublishedCountIsStatedRoundSize ==
    [][Publishes => Len(published') = StatedRoundSize]_vars

(* C22: a channel error on send or on receive is fatal: trace returns the      *)
(* error at once, the failing call neither publishes nor advances a round nor   *)
(* processes a response, and after the error no step is taken at all (no probe  *)
(* sent, no response processed, no round published or advanced).                *)
C22_ChannelErrorIsFatal ==
    [][/\ pc # "failed"
       /\ pc' = "failed" =>
             /\ pub_count' = pub_count
             /\ published' = published
             /\ round' = round /\ round_sequence' = round_sequence
             /\ recv_count' = recv_count
             /\ pc = "recv" => UNCHANGED state_vars]_vars

(* C22 witness: the trace has failed in the round after a published one, with   *)
(* probes of that round sent and a response processed.                          *)
C22_Witness ==
    /\ pc = "failed"
    /\ pub_count >= 1
    /\ sequence # round_sequence
    /\ max_received_ttl # None

(* An Echo Reply with the trace identifier and the sequence of a probe of the  *)
(* current round is received in this step.                                      *)
EchoReplyInRound ==
    /\ pc = "recv"
    /\ last_recv' # None
    /\ Unwrap(last_recv').variant = "EchoReply"
    /\ Unwrap(last_recv').identifier = trace_identifier
    /\ InCurrentRound(Unwrap(last_recv').sequence)

(* C23: target_found is true if and only if an Echo Reply with the trace        *)
(* identifier and an in-round sequence has been processed since the last        *)
(* advance_round (it is false after advance_round, becomes true with such an    *)
(* Echo Reply and otherwise keeps its value); an accepted Time Exceeded or      *)
(* Destination Unreachable marks the probe Complete with its own packet type    *)
(* and changes neither target_found nor target_ttl.                             *)
C23_TargetFoundIffEchoReplyProcessed ==
    [][/\ target_found' <=> IF Publishes THEN FALSE ELSE target_found \/ EchoReplyInRound
       /\ Updates /\ Unwrap(last_recv').variant # "EchoReply" =>
            LET r == Unwrap(last_recv') IN
            /\ buffer'[r.sequence % 256].status = "Complete"
            /\ buffer'[r.sequence % 256].icmp_packet_type =
                  IF r.variant = "TimeExceeded" THEN {"TimeExceeded"} ELSE {"Unreachable"}
            /\ target_found' = target_found
            /\ target_ttl' = target_ttl]_vars

(* C24: a new TracerState (the state a trace starts in, round 0) has sequence  *)
(* = round_sequence = 33000, round = 0, ttl = first_ttl, target_found = false,  *)
(* max_received_ttl = target_ttl = target_seq = received_time = None and all    *)
(* 256 slots default; and in every reachable state sequence and round_sequence  *)
(* lie in [33000, 65535].                                                       *)
C24_NewStateAndSequenceRange ==
    /\ round = 0 =>
          /\ sequence = 33000 /\ round_sequence = 33000
          /\ ttl = first_ttl
          /\ target_found = FALSE
          /\ max_received_ttl = None /\ target_ttl = None
          /\ target_seq = None /\ received_time = None
          /\ DOMAIN buffer = 0..255
          /\ \A i \in 0..255 :
                /\ buffer[i].status = "NotSent" /\ buffer[i].sequence = 0
                /\ buffer[i].ttl = 0 /\ buffer[i].round = 0
                /\ buffer[i].sent = None /\ buffer[i].received = None
                /\ buffer[i].host = None /\ buffer[i].icmp_packet_type = None
    /\ [](/\ 33000 <= sequence /\ sequence <= 65535
          /\ 33000 <= round_sequence /\ round_sequence <= 65535)

(* C24 witness: the sequence counter has wrapped inside a round, after the      *)
(* probe with sequence 65535 was sent, and the round after it starts at a       *)
(* wrapped sequence.                                                             *)
C24_Witness ==
    /\ pub_count >= 1
    /\ round_sequence < 65535 - 256
    /\ sequence > round_sequence
    /\ probe_at(65535).sequence = 65535
    /\ probe_at(65535).round = round - 1

(* C25: a round is completed only when the round has exceeded the minimum      *)
(* round duration and the time since the last packet was received (if any was)  *)
(* exceeds the grace period and either the target has been found or the round   *)
(* has exceeded the maximum round duration; in particular no round is completed *)
(* while the time since the last received packet is within the grace period.    *)
C25_CompleteOnlyAfterGrace ==
    [][Publishes =>
          LET elapsed == now - round_start IN
          /\ elapsed > min_round_duration
          /\ \A t \in received_time : now - t > grace_duration
          /\ target_found \/ elapsed > max_round_duration]_vars

(* C26: probes() yields the probes of the current round in the order they     *)
(* were sent: its k-th element (k from 0) is the probe sent k-th in the current *)
(* round, the one with sequence round_sequence + k (65535 being followed by     *)
(* 33000), also in a round during which the sequence counter wraps.             *)
C26_ProbesYieldsRoundInSendOrder ==
    \A k \in 0..(SentInRound - 1) :
        /\ probes_take(SentInRound)[k + 1].sequence = SentSequence(k)
        /\ probes_take(SentInRound)[k + 1].status # "NotSent"
        /\ probes_take(SentInRound)[k + 1].round = round

(* C27: within every round the probes sent carry the ttls first_ttl,           *)
(* first_ttl + 1, first_ttl + 2, ... with no gap and no repeat (the probe sent  *)
(* k-th, k from 0, has ttl first_ttl + k), none greater than max_ttl, none      *)
(* greater than a target_ttl known at send time, and no probe is sent after     *)
(* target_found became true in the round.                                       *)
C27_RoundTtlsAscendWithoutGap ==
    [][sequence' # sequence =>
          LET p == buffer'[sequence % 256] IN
          /\ p.ttl = first_ttl + SentInRound
          /\ p.ttl <= max_ttl
          /\ \A t \in target_ttl : p.ttl <= t
          /\ ~target_found]_vars

(* C28: in every reachable state with max_received_ttl = Some(m), m is below   *)
(* state.ttl, so the 8-bit subtraction state.ttl - max_received_ttl of          *)
(* send_request never underflows.                                               *)
C28_MaxReceivedTtlBelowTtl ==
    \A m \in max_received_ttl : m < ttl

(* C29: whenever target_ttl = Some(t), first_ttl <= t <= max_ttl, so the       *)
(* 8-bit t - first_ttl + 1 of publish_trace neither underflows nor overflows.   *)
C29_TargetTtlWithinConfiguredRange ==
    \A t \in target_ttl : first_ttl <= t /\ t <= max_ttl

(* C30: the 8-bit ttl counter never overflows: next_probe is never called when *)
(* state.ttl = 255, so state.ttl + 1 fits in 8 bits and state.ttl never wraps   *)
(* back to 0 (configurations with 1 <= first_ttl <= max_ttl <= 255).            *)
C30_TtlNeverOverflows ==
    [][/\ sequence' # sequence => ttl # 255 /\ ttl' = ttl + 1
       /\ ttl' # 0]_vars

----------------------------------------------------------------------------
(* recv_response and update_probe as functions of the TracerState, for the     *)
(* claims that compare the results of different sequences of calls.            *)
StateNow ==
    [buffer |-> buffer, round_sequence |-> round_sequence, target_ttl |-> target_ttl,
     target_seq |-> target_seq, max_received_ttl |-> max_received_ttl,
     received_time |-> received_time, target_found |-> target_found]

(* Mutant of update_probe_result: the first Echo Reply wins, whatever its       *)
(* sequence.                                                                    *)
update_probe_result_first_wins(st, s, probe, rtime, found) ==
    LET sets == st.target_ttl = None /\ found
    IN  [st EXCEPT
           !.target_ttl = IF sets THEN Some(probe.ttl) ELSE @,
           !.target_seq = IF sets THEN Some(s) ELSE @,
           !.buffer = [@ EXCEPT ![Slot(s)] = probe],
           !.max_received_ttl = IF @ # None THEN Some(Max(Unwrap(@), probe.ttl))
                                            ELSE Some(probe.ttl),
           !.received_time = Some(rtime),
           !.target_found = (@ \/ found)]

update_probe_result(st, s, probe, rtime, found) ==
    LET sets == \/ st.target_ttl = None /\ found
                \/ /\ st.target_ttl # None /\ st.target_seq # None
                   /\ found /\ s < Unwrap(st.target_seq)
    IN  [st EXCEPT
           !.target_ttl = IF sets THEN Some(probe.ttl) ELSE @,
           !.target_seq = IF sets THEN Some(s) ELSE @,
           !.buffer = [@ EXCEPT ![Slot(s)] = probe],
           !.max_received_ttl = IF @ # None THEN Some(Max(Unwrap(@), probe.ttl))
                                            ELSE Some(probe.ttl),
           !.received_time = Some(rtime),
           !.target_found = (@ \/ found)]

(* One arm of recv_response for a response r = [variant, sequence, recv] that   *)
(* carries the trace identifier.                                                *)
recv_result(st, r) ==
    IF r.sequence >= st.round_sequence
      THEN update_probe_result(st, r.sequence,
               with_received(
                   with_host(
                       with_icmp_packet_type(
                           with_status(st.buffer[Slot(r.sequence)], "Complete"),
                           PacketType(r.variant)),
                       Responder(r.variant)),
                   r.recv),
               r.recv, IsFound(r.variant))
      ELSE st

(* The responses, received at t, that answer a probe of the current round and  *)
(* are accepted.                                                                *)
RoundResponses(t) ==
    {[variant |-> v, sequence |-> s, recv |-> t] :
        v \in Variants,
        s \in {q \in {SentSequence(k) : k \in 0..(SentInRound - 1)} : in_round(q)}}

SameButReceivedTime(a, b) ==
    /\ a.buffer = b.buffer
    /\ a.target_found = b.target_found
    /\ a.max_received_ttl = b.max_received_ttl
    /\ a.target_ttl = b.target_ttl
    /\ a.target_seq = b.target_seq

(* C31: response processing is order-independent within a round: two accepted *)
(* responses to two distinct probes of the current round, applied in either     *)
(* order, give the same ring buffer, target_found, max_received_ttl, target_ttl *)
(* and target_seq; applying the same response twice gives the same state as     *)
(* applying it once.  (recv_result is what each receive step of the loop does.) *)
C31_ResponsesCommuteAndAreIdempotent ==
    /\ [](/\ \A r1 \in RoundResponses(now), r2 \in RoundResponses(now + 1) :
                r1.sequence # r2.sequence =>
                  SameButReceivedTime(recv_result(recv_result(StateNow, r1), r2),
                                      recv_result(recv_result(StateNow, r2), r1))
          /\ \A r \in RoundResponses(now) :
                recv_result(recv_result(StateNow, r), r) = recv_result(StateNow, r))
    /\ [][Updates =>
            StateNow' = recv_result(StateNow,
                                    [variant |-> Unwrap(last_recv').variant,
                                     sequence |-> Unwrap(last_recv').sequence,
                                     recv |-> now'])]_vars

(* C31 witness: two Echo Replies of the current round were applied out of       *)
(* order (the one for the later probe first) and the target is that of the      *)
(* earlier probe.                                                               *)
C31_Witness ==
    /\ pc = "update"
    /\ SentInRound >= 2
    /\ in_round(SentSequence(1))
    /\ probe_at(SentSequence(0)).icmp_packet_type = {"EchoReply"}
    /\ probe_at(SentSequence(1)).icmp_packet_type = {"EchoReply"}
    /\ probe_at(SentSequence(0)).round = round
    /\ probe_at(SentSequence(1)).round = round
    /\ \E a \in probe_at(SentSequence(0)).received, b \in probe_at(SentSequence(1)).received :
          a > b
    /\ target_seq = {SentSequence(0)}
    /\ target_ttl = {probe_at(SentSequence(0)).ttl}

(* C32: in every reachable state, target_found implies target_ttl # None and   *)
(* received_time # None, and target_seq # None implies target_ttl # None and    *)
(* target_found.                                                                *)
C32_TargetFieldsAreConsistent ==
    /\ target_found => target_ttl # None /\ received_time # None
    /\ target_seq # None => target_ttl # None /\ target_found

(* C32 witness: in a round after the first an Echo Reply to a probe of the      *)
(* round has been accepted: target_found, target_seq, target_ttl and            *)
(* received_time are all set.                                                   *)
C32_Witness ==
    /\ pub_count >= 1
    /\ target_found
    /\ target_seq # None
    /\ InCurrentRound(Unwrap(target_seq))
    /\ target_ttl = {probe_at(Unwrap(target_seq)).ttl}
    /\ received_time # None

====
